---- MODULE Spec2Model ----
(***************************************************************************)
(* Model of tree<int>::k_centers (k_center_tree_uniform_cap.cpp): the      *)
(* equal-capacity k-center problem on a weighted tree.                     *)
(*                                                                         *)
(* The tree is built by add_edge calls, then k_centers(C, k) runs once:    *)
(* the assertion, the all-pairs distance precomputation (one dfs per       *)
(* start vertex), the sort of the distance universe, the binary search     *)
(* that calls the oracle check(radius), and the final check.               *)
(*                                                                         *)
(* Undefined behaviour of the C++ source is modelled as a choice between   *)
(* the outcomes a build produces:                                          *)
(*   - a write one past the end of f (f has n slots, f[n] is written):     *)
(*     the write lands in allocator slack and the run goes on, or the      *)
(*     heap is damaged and the process dies;                               *)
(*   - a read of distances[lo] outside the vector: the process dies or     *)
(*     the read yields some value of Garbage;                              *)
(*   - st.begin() of an empty set is dereferenced and erased: the          *)
(*     process dies (the set's header node is handed to the deallocator).  *)
(* std::sort leaves the order of equal elements unspecified: sortTies is   *)
(* the order the build's sort gives them, fixed for the whole run.         *)
(***************************************************************************)
EXTENDS Integers, Sequences, FiniteSets

\* Bounds of the model.
MaxN == 4
MaxW == 2
MaxC == 4
MaxK == 4

\* int root = 1;
root == 1

\* What an out-of-bounds read of a vector<int> may yield.
Garbage == {-1, 0, 1}

VARIABLES
    n,           \* tree::n
    con,         \* tree::con, the adjacency lists (index 0 unused)
    sortTies,    \* order std::sort gives elements that compare equal
    pc,          \* position in k_centers
    argC, argK,  \* the arguments of k_centers
    i,           \* loop variable of the precomputation loop
    D,           \* vector<vector<int>> D(n + 1)
    ancestors,   \* vector<vector<int>> ancestors(n + 1)
    distances,   \* vector<weight_type> distances
    centers,     \* vector<int> centers
    assignment,  \* vector<int> assignment(n + 1)
    lo, hi,      \* binary search bounds
    nChecks,     \* number of calls of check so far
    lastCheck,   \* value returned by the last call of check
    oob,         \* containers indexed out of their bounds so far
    radius       \* first component of the returned tuple

vars == <<n, con, sortTies, pc, argC, argK, i, D, ancestors, distances,
          centers, assignment, lo, hi, nChecks, lastCheck, oob, radius>>

\* The returned radius while k_centers has returned nothing.
NoRadius == "none"

V == 1..n

----------------------------------------------------------------------------
\* Helpers on sequences and sets.

Range(s) == {s[x] : x \in DOMAIN s}

Min(S) == CHOOSE x \in S : \A y \in S : x <= y

Max(S) == CHOOSE x \in S : \A y \in S : y <= x

\* sort(distances.begin(), distances.end()): ascending insertion.
RECURSIVE InsertSorted(_, _)
InsertSorted(s, x) ==
    IF s = <<>> THEN <<x>>
    ELSE IF x < Head(s) THEN <<x>> \o s
    ELSE <<Head(s)>> \o InsertSorted(Tail(s), x)

RECURSIVE SortAsc(_)
SortAsc(s) == IF s = <<>> THEN <<>> ELSE InsertSorted(SortAsc(Tail(s)), Head(s))

----------------------------------------------------------------------------
\* Tree store.

\* The undirected edges held in the adjacency lists c, each as <<u, v>>, u < v.
EdgesOf(c) ==
    {e \in (DOMAIN c) \X (DOMAIN c) :
        e[1] < e[2] /\ \E j \in DOMAIN c[e[1]] : c[e[1]][j][1] = e[2]}

\* The vertices reachable from the set S along the edges of c.
RECURSIVE ReachFrom(_, _)
ReachFrom(c, S) ==
    LET T == S \cup {y \in DOMAIN c : \E x \in S : \E j \in DOMAIN c[x] : c[x][j][1] = y}
    IN  IF T = S THEN S ELSE ReachFrom(c, T)

\* tree(int n): n(n), con(n + 1)
Init ==
    /\ n \in 1..MaxN
    /\ con = [v \in 0..n |-> <<>>]
    /\ sortTies \in {"asc", "desc"}
    /\ pc = "build"
    /\ argC = 0
    /\ argK = 0
    /\ i = 0
    /\ D = <<>>
    /\ ancestors = <<>>
    /\ distances = <<>>
    /\ centers = <<>>
    /\ assignment = <<>>
    /\ lo = 0
    /\ hi = 0
    /\ nChecks = 0
    /\ lastCheck = FALSE
    /\ oob = {}
    /\ radius = NoRadius

\* add_edge(node1, node2, W).  The caller adds the n - 1 edges of a tree: the
\* new edge joins two components, and the edges come in increasing order with
\* node1 < node2 (one order of insertion per tree).
AddEdge(node1, node2, W) ==
    /\ pc = "build"
    /\ node1 < node2
    /\ node2 \notin ReachFrom(con, {node1})
    /\ \A e \in EdgesOf(con) : e[1] < node1 \/ (e[1] = node1 /\ e[2] < node2)
    /\ con' = [con EXCEPT ![node1] = Append(@, <<node2, W>>),
                          ![node2] = Append(@, <<node1, W>>)]
    /\ UNCHANGED <<n, sortTies, pc, argC, argK, i, D, ancestors, distances,
                   centers, assignment, lo, hi, nChecks, lastCheck, oob, radius>>

----------------------------------------------------------------------------
\* k_centers: assertion and declarations.

\* Variant of Precondition: the sum in place of the product.
PreconditionMut(C, k) == k + C >= n

\* assert(k * C >= n)
Precondition(C, k) == k * C >= n

\* The call k_centers(C, k) on the finished tree, up to the precomputation loop.
Call(C, k) ==
    /\ pc = "build"
    /\ Cardinality(EdgesOf(con)) = n - 1
    /\ argC' = C
    /\ argK' = k
    /\ IF Precondition(C, k)
       THEN /\ pc' = "precompute"
            /\ i' = 1
            /\ centers' = <<>>
            /\ assignment' = [v \in 0..n |-> 0]
            /\ distances' = <<>>
            /\ D' = [v \in 0..n |-> <<>>]
            /\ ancestors' = [v \in 0..n |-> <<>>]
       ELSE /\ pc' = "aborted"
            /\ UNCHANGED <<i, centers, assignment, distances, D, ancestors>>
    /\ UNCHANGED <<n, con, sortTies, lo, hi, nChecks, lastCheck, oob, radius>>

----------------------------------------------------------------------------
\* All-pairs distance precomputation.

\* dfs(beg, s, p, d) on the accumulator acc = [row |-> D[beg], anc |->
\* ancestors, dist |-> distances]; DfsChildren is its loop over con[s].
RECURSIVE Dfs(_, _, _, _, _)
RECURSIVE DfsChildren(_, _, _, _, _, _)
Dfs(beg, s, p, d, acc) ==
    LET a1 == [acc EXCEPT !.row[s] = d]
        a2 == IF beg = root
              THEN [a1 EXCEPT !.anc[s] = Append(IF p # -1 THEN a1.anc[p] ELSE @, s)]
              ELSE a1
        a3 == IF beg < s THEN [a2 EXCEPT !.dist = Append(@, d)] ELSE a2
    IN  DfsChildren(beg, s, p, d, 1, a3)

DfsChildren(beg, s, p, d, j, acc) ==
    IF j > Len(con[s]) THEN acc
    ELSE LET v == con[s][j]
         IN  DfsChildren(beg, s, p, d, j + 1,
                         IF v[1] # p THEN Dfs(beg, v[1], s, d + v[2], acc) ELSE acc)

\* One iteration of for(i = 1; i <= n; i++){ D[i].resize(n + 1); dfs(i, i, -1, 0); }
Precompute ==
    /\ pc = "precompute"
    /\ i <= n
    /\ LET r == Dfs(i, i, -1, 0,
                    [row |-> [v \in 0..n |-> 0], anc |-> ancestors, dist |-> distances])
       IN  /\ D' = [D EXCEPT ![i] = r.row]
           /\ ancestors' = r.anc
           /\ distances' = r.dist
    /\ i' = i + 1
    /\ UNCHANGED <<n, con, sortTies, pc, argC, argK, centers, assignment,
                   lo, hi, nChecks, lastCheck, oob, radius>>

\* Loop exit, sort(distances), and int lo = 0, hi = distances.size() - 1.
SortDistances ==
    /\ pc = "precompute"
    /\ i > n
    /\ distances' = SortAsc(distances)
    /\ lo' = 0
    /\ hi' = Len(distances) - 1
    /\ pc' = "search"
    /\ UNCHANGED <<n, con, sortTies, argC, argK, i, D, ancestors, centers,
                   assignment, nChecks, lastCheck, oob, radius>>

----------------------------------------------------------------------------
\* Feasibility oracle: check(radius).

\* The loop over ancestors[v]: the first (nearest to the root) ancestor it of
\* v with D[root][v] - D[root][it] <= rad, or 0 when the loop ends without one.
FirstCover(v, rad) ==
    LET js == {j \in 1..Len(ancestors[v]) :
                   D[root][v] - D[root][ancestors[v][j]] <= rad}
    IN  IF js = {} THEN 0 ELSE ancestors[v][Min(js)]

\* The indices of f written by the first loop of check: f[v] = it.
FWrites(rad) == {v \in V : FirstCover(v, rad) # 0}

\* vector<int> f(n): the valid positions of f.
FIndices == 0..(n - 1)

\* The set st after the first loop of check: one pair per vertex that has a
\* covering ancestor.
StInit(rad) == {<<-D[root][FirstCover(v, rad)], v>> : v \in FWrites(rad)}

\* st.begin(): the least pair of the set<pair<weight_type, int>>.
StBegin(st) ==
    CHOOSE b \in st : \A c \in st : b[1] < c[1] \/ (b[1] = c[1] /\ b[2] <= c[2])

\* Variant of Reachable: the radius test off by one.
ReachableMut(center, U, rad) == {it \in U : D[center][it] <= rad + 1}

\* for(auto it : U) if(D[center][it] <= radius) reachable.push_back(it);
Reachable(center, U, rad) == {it \in U : D[center][it] <= rad}

\* The comparator of the sort of reachable, D[root][a] > D[root][b], with the
\* order sortTies for elements that compare equal.
Before(a, b) ==
    \/ D[root][a] > D[root][b]
    \/ /\ D[root][a] = D[root][b]
       /\ IF sortTies = "asc" THEN a < b ELSE a > b

\* sort(reachable.begin(), reachable.end(), ...) as a sequence.
RECURSIVE SortReachable(_)
SortReachable(S) ==
    IF S = {} THEN <<>>
    ELSE LET x == CHOOSE a \in S : \A b \in S \ {a} : Before(a, b)
         IN  <<x>> \o SortReachable(S \ {x})

\* Variant of Truncate: the capacity cap left out.
TruncateMut(seq, C) == seq

\* if(reachable.size() > C) reachable.resize(C);
Truncate(seq, C) == IF Len(seq) > C THEN SubSeq(seq, 1, C) ELSE seq

\* !U.empty() && iter < k
LoopGuard(U, iter, k) == U # {} /\ iter < k

\* The greedy loop of check from iteration iter on.  stEmpty: st.begin() was
\* dereferenced on an empty set.
RECURSIVE CheckLoop(_, _, _, _, _, _)
CheckLoop(iter, U, st, cs, asg, rad) ==
    IF ~LoopGuard(U, iter, argK)
    THEN [ok |-> U = {}, centers |-> cs, assignment |-> asg, stEmpty |-> FALSE]
    ELSE IF st = {}
    THEN [ok |-> FALSE, centers |-> cs, assignment |-> asg, stEmpty |-> TRUE]
    ELSE LET b == StBegin(st)
             center == b[2]
             kept == Range(Truncate(SortReachable(Reachable(center, U, rad)), argC))
         IN  CheckLoop(iter + 1, U \ kept, st \ {b}, Append(cs, center),
                       [v \in DOMAIN asg |-> IF v \in kept THEN center ELSE asg[v]],
                       rad)

\* check(radius) called with the assignment asg left by the calls before it:
\* the value returned (ok), the centers and assignment it leaves, the
\* containers it indexes out of their bounds (oob), and stEmpty.
Check(rad, asg) ==
    LET r == CheckLoop(0, V, StInit(rad), <<>>, asg, rad)
    IN  [ok |-> r.ok, centers |-> r.centers, assignment |-> r.assignment,
         stEmpty |-> r.stEmpty,
         oob |-> (IF FWrites(rad) \subseteq FIndices THEN {} ELSE {"f"})
                 \cup (IF Range(r.centers) \cup {root} \subseteq {v \in DOMAIN D : D[v] # <<>>}
                       THEN {} ELSE {"D"})
                 \cup (IF V \subseteq DOMAIN ancestors THEN {} ELSE {"ancestors"})
                 \cup (IF V \subseteq DOMAIN asg THEN {} ELSE {"assignment"})]

----------------------------------------------------------------------------
\* Radius search driver.

\* The outcomes of check(rad) when the containers in ob were already indexed
\* out of bounds in this step: the call returns unless it dereferences
\* st.begin() of an empty set, and the process may die once anything was
\* accessed out of bounds.
CheckOutcomes(rad, ob) ==
    LET res == Check(rad, assignment)
        o2 == ob \cup res.oob
    IN  (IF res.stEmpty THEN {}
         ELSE {[crashed |-> FALSE, called |-> TRUE, oob |-> o2, rad |-> rad, res |-> res]})
        \cup
        (IF o2 # {} \/ res.stEmpty
         THEN {[crashed |-> TRUE, called |-> TRUE, oob |-> o2, rad |-> rad, res |-> res]}
         ELSE {})

\* The outcomes of check(distances[idx]) (idx counted from 0, as in the code).
OracleOutcomes(idx) ==
    IF idx \in 0..(Len(distances) - 1)
    THEN CheckOutcomes(distances[idx + 1], {})
    ELSE {[crashed |-> TRUE, called |-> FALSE, oob |-> {"distances"}, rad |-> 0,
           res |-> [ok |-> FALSE, centers |-> centers, assignment |-> assignment,
                    stEmpty |-> FALSE, oob |-> {}]]}
         \cup UNION {CheckOutcomes(g, {"distances"}) : g \in Garbage}

\* Variant of SearchNext: the two branches exchanged.
SearchNextMut(ok, mid) ==
    IF ok THEN [lo |-> mid + 1, hi |-> hi] ELSE [lo |-> lo, hi |-> mid]

\* if(check(distances[mid])) hi = mid; else lo = mid + 1;
SearchNext(ok, mid) ==
    IF ok THEN [lo |-> lo, hi |-> mid] ELSE [lo |-> mid + 1, hi |-> hi]

\* One iteration of while(lo < hi).
SearchStep ==
    /\ pc = "search"
    /\ lo < hi
    /\ LET mid == (lo + hi) \div 2
       IN  \E out \in OracleOutcomes(mid) :
             /\ oob' = oob \cup out.oob
             /\ nChecks' = IF out.called THEN nChecks + 1 ELSE nChecks
             /\ IF out.crashed
                THEN /\ pc' = "crashed"
                     /\ UNCHANGED <<centers, assignment, lo, hi, lastCheck>>
                ELSE /\ pc' = "search"
                     /\ centers' = out.res.centers
                     /\ assignment' = out.res.assignment
                     /\ lastCheck' = out.res.ok
                     /\ lo' = SearchNext(out.res.ok, mid).lo
                     /\ hi' = SearchNext(out.res.ok, mid).hi
    /\ UNCHANGED <<n, con, sortTies, argC, argK, i, D, ancestors, distances, radius>>

\* Loop exit, check(distances[lo]), and
\* return make_tuple(distances[lo], centers, assignment).
Final ==
    /\ pc = "search"
    /\ ~(lo < hi)
    /\ \E out \in OracleOutcomes(lo) :
         /\ oob' = oob \cup out.oob
         /\ nChecks' = IF out.called THEN nChecks + 1 ELSE nChecks
         /\ IF out.crashed
            THEN /\ pc' = "crashed"
                 /\ UNCHANGED <<centers, assignment, lastCheck, radius>>
            ELSE /\ pc' = "done"
                 /\ centers' = out.res.centers
                 /\ assignment' = out.res.assignment
                 /\ lastCheck' = out.res.ok
                 /\ radius' = out.rad
    /\ UNCHANGED <<n, con, sortTies, argC, argK, i, D, ancestors, distances, lo, hi>>

Next ==
    \/ \E node1, node2 \in V : \E W \in 0..MaxW : AddEdge(node1, node2, W)
    \/ \E C \in 1..MaxC : \E k \in 1..MaxK : Call(C, k)
    \/ Precompute
    \/ SortDistances
    \/ SearchStep
    \/ Final

Spec == Init /\ [][Next]_vars

----------------------------------------------------------------------------
\* Reference: the optimum by exhaustive search over center sets and
\* assignments.

\* Some set of at most argK centers and some assignment of every vertex to one
\* of them has every vertex within r of its center and at most argC vertices
\* per center.
Feasible(r) ==
    \E S \in SUBSET V :
        /\ S # {}
        /\ Cardinality(S) <= argK
        /\ \E a \in [V -> S] :
             /\ \A v \in V : D[a[v]][v] <= r
             /\ \A c \in S : Cardinality({v \in V : a[v] = c}) <= argC

\* The least feasible radius; it is the distance from some vertex to some center.
OptRadius == Min({r \in {D[a][b] : a, b \in V} : Feasible(r)})

\* The number of vertices the returned assignment gives to c.
Load(c) == Cardinality({v \in V : assignment[v] = c})

\* The values of the distance universe strictly below the returned radius.
BelowRadius == {d \in Range(distances) : d < radius}

----------------------------------------------------------------------------
\* Claims.

\* C1: on a tree with n >= 2 and k*C >= n the returned radius equals the true
\* optimum (the least radius some set of at most k centers and some assignment
\* within capacity C achieves).
C1_RadiusIsOptimum ==
    (pc = "done" /\ n >= 2) => radius = OptRadius

\* C2: in the returned triple (n >= 2, k*C >= n) every vertex is assigned to a
\* vertex of the returned centers list within the returned radius; the final
\* check returned true and wrote every assignment entry itself.
C2_AssignedWithinRadius ==
    (pc = "done" /\ n >= 2) =>
        /\ lastCheck
        /\ \A v \in V : /\ assignment[v] \in Range(centers)
                        /\ D[assignment[v]][v] <= radius
        /\ assignment = Check(radius, [v \in 0..n |-> 0]).assignment

\* C2 witness: a returned result on n >= 3 after an earlier check failed and
\* left its own assignment behind, with two centers open.
C2_Witness ==
    /\ pc = "done"
    /\ n >= 3
    /\ lo > 0
    /\ nChecks >= 3
    /\ Len(centers) >= 2
    /\ \E v \in V : assignment[v] # v

\* C3: in the returned result no center has more than C vertices assigned and
\* the centers list has at most k entries.
C3_CapacityAndCardinality ==
    pc = "done" =>
        /\ Len(centers) <= argK
        /\ \A c \in Range(centers) : Load(c) <= argC

\* C3 witness: a returned result where the truncation acted: a center is full
\* and a vertex within its radius is served by another center, with all k
\* centers open.
C3_Witness ==
    /\ pc = "done"
    /\ n >= 3
    /\ Len(centers) = argK
    /\ \E c \in Range(centers) :
         /\ Load(c) = argC
         /\ \E v \in V : assignment[v] # c /\ D[c][v] <= radius

\* C4: after k_centers returned radius r, check(r') returns true for every
\* r' >= r, in particular for every value of the distance universe at an index
\* above the returned one.
C4_MonotoneAboveAnswer ==
    (pc = "done" /\ n >= 2) =>
        \A j \in (lo + 1)..Len(distances) :
            LET res == Check(distances[j], assignment)
            IN  res.ok /\ ~res.stEmpty

\* C5: if the distance universe holds a value strictly below the returned
\* radius, check of the largest such value returns false.
C5_MinimalForOracle ==
    (pc = "done" /\ BelowRadius # {}) =>
        LET res == Check(Max(BelowRadius), assignment)
        IN  ~res.ok /\ ~res.stEmpty

\* C5 witness: a returned radius with a smaller value in the universe, found
\* after at least two search iterations.
C5_Witness ==
    /\ pc = "done"
    /\ BelowRadius # {}
    /\ nChecks >= 3
    /\ lo + 1 < Len(distances)

\* C6: with k*C = n exactly (n >= 1, including n = 1, k = C = 1) k_centers
\* completes and returns a result in which all n vertices are assigned.
C6_TightCapacityCompletes ==
    (pc # "build" /\ argK * argC = n) =>
        /\ pc # "crashed"
        /\ pc = "done" => \A v \in V : assignment[v] \in Range(centers)

\* C7: for positive k, C with k*C < n the call fails at the assertion: no
\* distance is computed, check is never invoked, nothing is returned.
C7_RejectedBeforeSearch ==
    (pc # "build" /\ argK * argC < n) =>
        /\ pc = "aborted"
        /\ nChecks = 0
        /\ distances = <<>>
        /\ D = <<>>
        /\ ancestors = <<>>
        /\ centers = <<>>
        /\ assignment = <<>>
        /\ radius = NoRadius

\* C7 witness: a call with C >= 2 and k*C = n - 1 was rejected.
C7_Witness ==
    /\ pc = "aborted"
    /\ argK >= 1
    /\ argC >= 2
    /\ argK * argC = n - 1

\* C8: the sorted distance universe (one entry per pair i < j) contains the
\* true optimal radius, for n >= 2 and k*C >= n, including k >= n.
C8_UniverseHoldsOptimum ==
    (pc \in {"search", "done"} /\ n >= 2) => OptRadius \in Range(distances)

\* C9: during a call that passes the assertion every indexed access of f, D,
\* ancestors, assignment and distances is within the container's bounds.
C9_AccessesInBounds ==
    oob = {}

\* C10: every vertex of the returned centers list has at least one vertex
\* assigned to it in the returned assignment.
C10_EveryCenterServes ==
    pc = "done" => \A c \in Range(centers) : Load(c) >= 1

====
